---------------------------- MODULE Spec2Model ----------------------------
(***************************************************************************)
(* A model of liberapay/models/__init__.py: the advisory-lock context      *)
(* manager, the migration runner, the rate-limit helper and the database   *)
(* self checks.  Each part has its own specification over the shared       *)
(* variables; the parts a specification does not exercise stay as they     *)
(* are after construction.                                                 *)
(***************************************************************************)
EXTENDS Integers, Sequences, FiniteSets, TLC

VARIABLES
    \* ---- acquire_db_lock: one store session per worker ----
    pc,             \* worker -> position inside acquire_db_lock
    lockName,       \* worker -> the lock_name argument of the current call
    blocking,       \* worker -> the blocking argument of the current call
    held,           \* worker -> lock id -> times the worker's session holds it
    txn,            \* worker -> state of the cursor's transaction
    result,         \* worker -> how the last `with db.lock(...)` ended
    \* ---- run_migrations ----
    catalogue,      \* sql/migrations.sql: the migration numbers, in file order
    schema_version, \* db_meta's schema_version (0 also stands for no db_meta)
    app_conf,       \* number of rows of app_conf
    mpc,            \* position inside run_migrations
    v,              \* the local v: the version read at the start of the run
    n,              \* the local n: <<>> while unbound, else <<number>>
    mi,             \* index of the loop over migrations[1:]
    mq,             \* index of the next statement of the current migration
    executed,       \* <<number, statement>> pairs sent to the store, this run
    answer,         \* <<>>, or <<what the operator typed>> for this migration
    ret,            \* the value the run returned
    runs,           \* runs started so far
    prev,           \* how the run before this one ended, and the version then
    \* ---- hit_rate_limit, clean_up_counters ----
    counters,       \* the store's rate-limit counters: key -> hits counted
    sentry,         \* the errors told to the monitoring collaborator
    hit,            \* the last hit_rate_limit call: inputs, store reply, end
    \* ---- the ledger tables the self checks read ----
    wallets,        \* remote_id -> balance
    exchanges,      \* rows of exchanges
    exchange_events, \* rows of exchange_events
    transfers,      \* rows of transfers
    cash_bundles,   \* rows of cash_bundles
    tips,           \* rows of tips
    payins,         \* rows of payins
    payin_transfers, \* rows of payin_transfers
    \* ---- check_db and the single checks ----
    entry,          \* "none", "check_db", or the check called on its own
    cpc,            \* check_db: index of the sub-check to call next
    ran,            \* the sub-checks called so far, in call order
    ended           \* "none", "running", "returned" or "AssertionError"

lockVars == <<pc, lockName, blocking, held, txn, result>>

migVars == <<catalogue, schema_version, app_conf, mpc, v, n, mi, mq,
             executed, answer, ret, runs, prev>>

rateVars == <<counters, sentry, hit>>

ledgerVars == <<wallets, exchanges, exchange_events, transfers, cash_bundles,
                tips, payins, payin_transfers>>

checkVars == <<entry, cpc, ran, ended>>

vars == <<lockVars, migVars, rateVars, ledgerVars, checkVars>>

\* What the actions of one part leave alone.
notLock == <<migVars, rateVars, ledgerVars, checkVars>>

notMig == <<lockVars, rateVars, ledgerVars, checkVars>>

notRate == <<lockVars, migVars, ledgerVars, checkVars>>

notLedger == <<lockVars, migVars, rateVars>>

(***************************************************************************)
(* Bounds                                                                  *)
(***************************************************************************)
\* Number of concurrent workers, each with its own store session.
NumWorkers == 2
\* A session takes an advisory lock at most this many times over.
MaxHold == 2
\* Migration numbers range over 1..MaxNumber; stored versions over 0..MaxNumber.
MaxNumber == 4
\* Statements the splitting regex finds in one migration body.
NumStatements == 2
\* Consecutive runs of run_migrations on one store.
MaxRuns == 2
\* Rows a ledger table holds at most.
MaxEvents == 2
MaxTransfers == 2
MaxBundles == 2

(***************************************************************************)
(* acquire_db_lock                                                         *)
(***************************************************************************)
Workers == 1..NumWorkers

DB_LOCKS == [payday |-> 1, dispute_callback |-> 2]

LockNames == DOMAIN DB_LOCKS

LockIds == {DB_LOCKS[name] : name \in LockNames}

\* What the wrapped critical section can do: return, raise without touching
\* the store, raise after a statement failed on the lock's cursor (the
\* transaction is then aborted), or lose the connection altogether.
BodyOutcomes == {"return", "raise", "store_error", "connection_lost"}

\* The server's view: some other session holds the advisory lock.
HeldByOther(w, id) == \E o \in Workers \ {w} : held[o][id] > 0

\* A lock call that never looks at the other sessions.
AlwaysGranted(w, id) == TRUE

\* pg_try_advisory_lock: granted unless another session holds the lock
\* (advisory locks are re-entrant within a session).
pg_try_advisory_lock_granted(w, id) == ~HeldByOther(w, id)

\* pg_advisory_lock returns only once no other session holds the lock.
pg_advisory_lock_granted(w, id) == ~HeldByOther(w, id)

\* A statement run on a cursor whose transaction is aborted, or whose
\* connection is gone, raises instead of executing.
StatementRuns(w) == txn[w] = "open"

LockIdle ==
    /\ pc = [w \in Workers |-> "idle"]
    /\ lockName = [w \in Workers |-> "payday"]
    /\ blocking = [w \in Workers |-> TRUE]
    /\ held = [w \in Workers |-> [id \in LockIds |-> 0]]
    /\ txn = [w \in Workers |-> "none"]
    /\ result = [w \in Workers |-> "none"]

\* `with db.lock(name, blocking)`: look the id up and open a cursor.
EnterLock(w, name, b) ==
    /\ pc[w] = "idle"
    /\ held[w][DB_LOCKS[name]] < MaxHold
    /\ pc' = [pc EXCEPT ![w] = "acquire"]
    /\ lockName' = [lockName EXCEPT ![w] = name]
    /\ blocking' = [blocking EXCEPT ![w] = b]
    /\ txn' = [txn EXCEPT ![w] = "open"]
    /\ result' = [result EXCEPT ![w] = "none"]
    /\ UNCHANGED held
    /\ UNCHANGED notLock

\* blocking=True: the call returns when the server grants the lock.
AcquireBlocking(w) ==
    /\ pc[w] = "acquire"
    /\ blocking[w]
    /\ pg_advisory_lock_granted(w, DB_LOCKS[lockName[w]])
    /\ held' = [held EXCEPT ![w][DB_LOCKS[lockName[w]]] = @ + 1]
    /\ pc' = [pc EXCEPT ![w] = "critical"]
    /\ UNCHANGED <<lockName, blocking, txn, result>>
    /\ UNCHANGED notLock

\* blocking=False: one attempt; `assert locked` raises out of the cursor
\* block (which rolls back) when the attempt was refused.
AcquireNonBlocking(w) ==
    /\ pc[w] = "acquire"
    /\ ~blocking[w]
    /\ IF pg_try_advisory_lock_granted(w, DB_LOCKS[lockName[w]])
       THEN /\ held' = [held EXCEPT ![w][DB_LOCKS[lockName[w]]] = @ + 1]
            /\ pc' = [pc EXCEPT ![w] = "critical"]
            /\ UNCHANGED <<txn, result>>
       ELSE /\ pc' = [pc EXCEPT ![w] = "idle"]
            /\ txn' = [txn EXCEPT ![w] = "none"]
            /\ result' = [result EXCEPT ![w] = "AssertionError"]
            /\ UNCHANGED held
    /\ UNCHANGED <<lockName, blocking>>
    /\ UNCHANGED notLock

\* `yield cursor`: the caller's critical section runs and ends.
CriticalSection(w, outcome) ==
    /\ pc[w] = "critical"
    /\ pc' = [pc EXCEPT ![w] = "finally"]
    /\ result' = [result EXCEPT ![w] =
                     IF outcome = "return" THEN "returned" ELSE "raised"]
    /\ txn' = [txn EXCEPT ![w] =
                  CASE outcome = "store_error" -> "aborted"
                    [] outcome = "connection_lost" -> "closed"
                    [] OTHER -> @]
    \* the server drops every lock of a session whose connection is gone
    /\ held' = IF outcome = "connection_lost"
               THEN [held EXCEPT ![w] = [id \in LockIds |-> 0]]
               ELSE held
    /\ UNCHANGED <<lockName, blocking>>
    /\ UNCHANGED notLock

\* finally: pg_advisory_unlock on the same cursor, any exception of it
\* swallowed; then the cursor block ends (commit or rollback) and the
\* connection goes back to the pool.
ReleaseLock(w) ==
    /\ pc[w] = "finally"
    /\ held' = IF StatementRuns(w) /\ held[w][DB_LOCKS[lockName[w]]] > 0
               THEN [held EXCEPT ![w][DB_LOCKS[lockName[w]]] = @ - 1]
               ELSE held
    /\ txn' = [txn EXCEPT ![w] = "none"]
    /\ pc' = [pc EXCEPT ![w] = "idle"]
    /\ UNCHANGED <<lockName, blocking, result>>
    /\ UNCHANGED notLock

LockNext ==
    \E w \in Workers :
        \/ \E name \in LockNames, b \in BOOLEAN : EnterLock(w, name, b)
        \/ AcquireBlocking(w)
        \/ AcquireNonBlocking(w)
        \/ \E outcome \in BodyOutcomes : CriticalSection(w, outcome)
        \/ ReleaseLock(w)

InCritical(w, name) == pc[w] = "critical" /\ lockName[w] = name

\* C1: after the critical section wrapped by acquire_db_lock has exited, by
\* return or by raising (a store error on the lock's own cursor included),
\* the worker's session no longer holds the named advisory lock.
C1_LockReleasedOnEveryExit ==
    \A w \in Workers :
        (pc[w] = "idle" /\ result[w] \in {"returned", "raised"})
            => held[w][DB_LOCKS[lockName[w]]] = 0

MutualExclusion ==
    \A name \in LockNames : \A a, b \in Workers :
        (InCritical(a, name) /\ InCritical(b, name)) => a = b

\* A non-blocking caller facing a lock another session holds ends its call
\* in that very step with an AssertionError; a blocking caller stays put.
RefusedWithoutWaiting(w) ==
    (pc[w] = "acquire" /\ HeldByOther(w, DB_LOCKS[lockName[w]]))
        => /\ pc'[w] # "critical"
           /\ blocking[w] => pc'[w] = "acquire"
           /\ (~blocking[w] /\ pc'[w] # pc[w])
                 => (pc'[w] = "idle" /\ result'[w] = "AssertionError")

\* C2: for every lock name of DB_LOCKS and every interleaving of blocking
\* and non-blocking callers, at most one worker is inside the critical
\* section of that name; a non-blocking caller that finds the lock held by
\* another worker fails with an assertion at once and never runs its
\* critical section.
C2_MutualExclusion ==
    [][MutualExclusion' /\ \A w \in Workers : RefusedWithoutWaiting(w)]_vars

\* C2's case: one worker is in the critical section of a lock while a
\* non-blocking caller of the same lock has just been refused.
C2_Witness ==
    \E a, b \in Workers :
        /\ a # b
        /\ InCritical(a, lockName[b])
        /\ pc[b] = "idle" /\ ~blocking[b] /\ result[b] = "AssertionError"

(***************************************************************************)
(* run_migrations                                                          *)
(***************************************************************************)
\* Strictly increasing sequences of numbers drawn from S.
RECURSIVE Ascending(_)
Ascending(S) ==
    IF S = {} THEN <<>>
    ELSE LET m == CHOOSE x \in S : \A y \in S : x <= y
         IN  <<m>> \o Ascending(S \ {m})

Catalogues == {Ascending(S) : S \in SUBSET (1..MaxNumber)}

\* How one cursor.execute(query) of a migration can end: it succeeds, it
\* raises IntegrityError or ProgrammingError, or it raises something else.
StatementOutcomes == {"ok", "conflict", "other_error"}

\* What the operator may type at the prompt.
Answers == {"y", "Y", "n", "N", "", "yes"}

\* str.lower on the answers above.
Lower(r) == CASE r = "Y" -> "y" [] r = "N" -> "n" [] OTHER -> r

\* The prompt's test that always lets the run go on.
AnyAnswerProceeds(r) == TRUE

\* Line 359 lets the run go on unless r.lower() != 'y'.
Proceeds(r) == Lower(r) = "y"

\* Line 372: n - v.
ReturnValue(last, start) == last - start

\* A loop test that also reruns the migration the store is already at.
AppliedIfAbove(start, number) == start > number

\* Line 344: `if v >= n: continue`.
AlreadyApplied(start, number) == start >= number

MigIdle ==
    /\ catalogue = <<>>
    /\ schema_version = 0
    /\ app_conf = 0
    /\ mpc = "idle"
    /\ v = 0
    /\ n = <<>>
    /\ mi = 1
    /\ mq = 1
    /\ executed = <<>>
    /\ answer = <<>>
    /\ ret = <<>>
    /\ runs = 0
    /\ prev = [ended |-> "none", version |-> 0]

\* Before the first run: any catalogue, any stored version, app_conf empty
\* or not.
MigInit ==
    /\ catalogue \in Catalogues
    /\ schema_version \in 0..MaxNumber
    /\ app_conf \in {0, 1}
    /\ mpc = "idle"
    /\ v = 0
    /\ n = <<>>
    /\ mi = 1
    /\ mq = 1
    /\ executed = <<>>
    /\ answer = <<>>
    /\ ret = <<>>
    /\ runs = 0
    /\ prev = [ended |-> "none", version |-> 0]

\* Lines 335-340: read the stored version and the catalogue.  A second run
\* follows a run that returned.
StartRun ==
    /\ mpc \in {"idle", "done"}
    /\ runs < MaxRuns
    /\ runs' = runs + 1
    /\ prev' = [ended |-> mpc, version |-> schema_version]
    /\ v' = schema_version
    /\ n' = <<>>
    /\ mi' = 1
    /\ mq' = 1
    /\ executed' = <<>>
    /\ ret' = <<>>
    /\ answer' = <<>>
    /\ mpc' = "loop"
    /\ UNCHANGED <<catalogue, schema_version, app_conf>>
    /\ UNCHANGED notMig

\* Lines 341-351: the next migration of the file; skipped when the version
\* read at the start is not below its number.
NextMigration ==
    /\ mpc = "loop"
    /\ mi <= Len(catalogue)
    /\ n' = <<catalogue[mi]>>
    /\ IF AlreadyApplied(v, catalogue[mi])
       THEN /\ mi' = mi + 1
            /\ UNCHANGED <<mpc, mq, answer>>
       ELSE /\ mpc' = "execute"
            /\ mq' = 1
            /\ answer' = <<>>
            /\ UNCHANGED mi
    /\ UNCHANGED <<catalogue, schema_version, app_conf, v, executed, ret,
                   runs, prev>>
    /\ UNCHANGED notMig

\* Lines 352-357: one statement of the migration, outside any transaction.
ExecuteStatement(outcome) ==
    /\ mpc = "execute"
    /\ executed' = Append(executed, <<n[1], mq>>)
    /\ CASE outcome = "ok" ->
              IF mq < NumStatements
              THEN /\ mq' = mq + 1
                   /\ UNCHANGED mpc
              ELSE /\ mpc' = "update"
                   /\ UNCHANGED mq
         [] outcome = "conflict" ->
              /\ mpc' = "prompt"
              /\ UNCHANGED mq
         [] OTHER ->
              /\ mpc' = "crashed"
              /\ UNCHANGED mq
    /\ UNCHANGED <<catalogue, schema_version, app_conf, v, n, mi, answer,
                   ret, runs, prev>>
    /\ UNCHANGED notMig

\* Lines 358-360: the operator's answer; sys.exit(1) unless it is a yes.
Prompt(r) ==
    /\ mpc = "prompt"
    /\ answer' = <<r>>
    /\ mpc' = IF Proceeds(r) THEN "update" ELSE "exited"
    /\ UNCHANGED <<catalogue, schema_version, app_conf, v, n, mi, mq,
                   executed, ret, runs, prev>>
    /\ UNCHANGED notMig

\* Lines 363-367: record the migration's number, then go on with the loop.
UpdateVersion ==
    /\ mpc = "update"
    /\ schema_version' = n[1]
    /\ mi' = mi + 1
    /\ mpc' = "loop"
    /\ UNCHANGED <<catalogue, app_conf, v, n, mq, executed, answer, ret,
                   runs, prev>>
    /\ UNCHANGED notMig

\* Lines 368-372: seed app_conf when empty, then evaluate n - v, which
\* raises UnboundLocalError when the loop never bound n.
Finish ==
    /\ mpc = "loop"
    /\ mi > Len(catalogue)
    /\ app_conf' = IF app_conf = 0 THEN 1 ELSE app_conf
    /\ IF n = <<>>
       THEN /\ mpc' = "crashed"
            /\ UNCHANGED ret
       ELSE /\ mpc' = "done"
            /\ ret' = <<ReturnValue(n[1], v)>>
    /\ UNCHANGED <<catalogue, schema_version, v, n, mi, mq, executed, answer,
                   runs, prev>>
    /\ UNCHANGED notMig

MigNext ==
    \/ StartRun
    \/ NextMigration
    \/ \E outcome \in StatementOutcomes : ExecuteStatement(outcome)
    \/ \E r \in Answers : Prompt(r)
    \/ UpdateVersion
    \/ Finish

\* The migrations a run has started, in the order it started them.
RECURSIVE Started(_)
Started(log) ==
    IF log = <<>> THEN <<>>
    ELSE IF log[1][2] = 1 THEN <<log[1][1]>> \o Started(Tail(log))
         ELSE Started(Tail(log))

Above(start) == SelectSeq(catalogue, LAMBDA k : k > start)

\* C3 as claimed: a run over a strictly increasing catalogue and a stored
\* version executes exactly the migrations numbered above the version, each
\* once and in increasing order, and leaves schema_version equal to the
\* highest migration number.
C3_EndsAtHighestNumber ==
    (mpc = "done")
        => /\ Started(executed) = Above(prev.version)
           /\ schema_version = catalogue[Len(catalogue)]

\* C3 as amended: a run that returns has executed exactly the migrations
\* numbered above the stored version, each once and in increasing order, and
\* leaves schema_version at the highest migration number when that is above
\* the stored version, and at the stored version otherwise.
C3_AppliesPendingInOrder ==
    (mpc = "done")
        => /\ Started(executed) = Above(prev.version)
           /\ schema_version =
                 IF catalogue[Len(catalogue)] > prev.version
                 THEN catalogue[Len(catalogue)]
                 ELSE prev.version

\* C3's case: catalogue 1, 3, 4 over stored version 2 ran 3 then 4 and
\* ended at version 4.
C3_Witness ==
    /\ mpc = "done"
    /\ catalogue = <<1, 3, 4>>
    /\ prev.version = 2
    /\ Started(executed) = <<3, 4>>
    /\ schema_version = 4

\* C4: run_migrations returns the number of catalogue migrations whose
\* number exceeds the version recorded at the start of the run, for every
\* catalogue (gaps included) and every starting version.
C4_ReturnsPendingCount ==
    (mpc = "done") => ret = <<Len(Above(prev.version))>>

\* The version the store had when migration n[1] began in this run.
VersionBeforeCurrent ==
    LET before == SelectSeq(Started(executed), LAMBDA k : k < n[1])
    IN  IF before = <<>> THEN prev.version ELSE before[Len(before)]

\* C5: after a statement of migration n failed with an integrity or schema
\* error, the run goes on past n only if the operator answered yes, and
\* schema_version is then n; on any other answer the process exits, n is
\* the last migration executed, and schema_version is still what it was
\* before n began, below n.
C5_ConflictNeedsConfirmation ==
    /\ (mpc = "exited")
          => /\ answer # <<>> /\ answer[1] \notin {"y", "Y"}
             /\ executed[Len(executed)][1] = n[1]
             /\ schema_version = VersionBeforeCurrent
             /\ schema_version < n[1]
    /\ (mpc \in {"update", "loop", "done"} /\ answer # <<>>)
          => answer[1] \in {"y", "Y"}
    /\ (mpc \in {"loop", "done"} /\ answer # <<>>)
          => schema_version = n[1]

\* C5's case: a conflict in migration 3, run after migration 1, was turned
\* down by the operator and the run exited with the version still at 1.
C5_Witness ==
    /\ mpc = "exited"
    /\ Started(executed) = <<1, 3>>
    /\ answer = <<"n">>
    /\ schema_version = 1

\* C6: a second run right after a run that returned, on the same store and
\* catalogue, executes no migration statement, leaves schema_version as it
\* was and returns 0.
C6_SecondRunIsNoOp ==
    (runs >= 2 /\ prev.ended = "done")
        => /\ executed = <<>>
           /\ schema_version = prev.version
           /\ (mpc = "done") => ret = <<0>>

(***************************************************************************)
(* hit_rate_limit and clean_up_counters                                    *)
(***************************************************************************)
\* liberapay.constants.RATE_LIMITS: key_prefix -> (cap, period).
RATE_LIMITS == [login |-> [cap |-> 2, period |-> 60]]

\* The key_prefix arguments tried: one of the table, one missing from it.
Prefixes == {"login", "unlisted"}

Uniques == {"u1", "u2"}

Keys == (DOMAIN RATE_LIMITS) \X Uniques

\* The store's hit_rate_limit(key, cap, period): counts the hit and answers
\* what is left of the cap, or NULL (here <<>>) once the cap is used up.
StoreHit(key, cap) ==
    IF counters[key] < cap
    THEN [counters |-> [counters EXCEPT ![key] = @ + 1],
          r |-> <<cap - (counters[key] + 1)>>]
    ELSE [counters |-> counters, r |-> <<>>]

\* What lines 408-410 meet: a KeyError on the table lookup, an error out of
\* db.one, or the store's answer.
Reply(prefix, unique, fails) ==
    IF prefix \notin DOMAIN RATE_LIMITS
    THEN [kind |-> "KeyError", r |-> <<>>, counters |-> counters]
    ELSE IF fails
    THEN [kind |-> "StoreError", r |-> <<>>, counters |-> counters]
    ELSE LET h == StoreHit(<<prefix, unique>>, RATE_LIMITS[prefix].cap)
         IN  [kind |-> "ok", r |-> h.r, counters |-> h.counters]

\* hit_rate_limit without its try/except: the error reaches the caller.
PropagatesErrors(reply, exception) ==
    IF reply.kind # "ok"
    THEN [ended |-> "raised", value |-> <<>>, raised |-> reply.kind,
          told |-> FALSE]
    ELSE IF reply.r = <<>> /\ exception
    THEN [ended |-> "raised", value |-> <<>>, raised |-> "exception",
          told |-> FALSE]
    ELSE [ended |-> "returned", value |-> reply.r, raised |-> "none",
          told |-> FALSE]

\* Lines 411-417: what the call makes of the reply.  An error is told to
\* sentry and answered with -1; a NULL answer raises the caller's exception
\* when one was given; otherwise the answer is returned (None for NULL).
Outcome(reply, exception) ==
    IF reply.kind # "ok"
    THEN [ended |-> "returned", value |-> <<-1>>, raised |-> "none",
          told |-> TRUE]
    ELSE IF reply.r = <<>> /\ exception
    THEN [ended |-> "raised", value |-> <<>>, raised |-> "exception",
          told |-> FALSE]
    ELSE [ended |-> "returned", value |-> reply.r, raised |-> "none",
          told |-> FALSE]

RateIdle ==
    /\ counters = [key \in Keys |-> 0]
    /\ sentry = {}
    /\ hit = [called |-> FALSE]

hit_rate_limit(prefix, unique, exception, fails) ==
    LET reply == Reply(prefix, unique, fails)
        out == Outcome(reply, exception)
    IN  /\ counters' = reply.counters
        /\ sentry' = IF out.told THEN sentry \cup {reply.kind} ELSE sentry
        /\ hit' = [called |-> TRUE, prefix |-> prefix, unique |-> unique,
                   exception |-> exception, reply |-> reply.kind,
                   blocked |-> (reply.kind = "ok" /\ reply.r = <<>>),
                   ended |-> out.ended, value |-> out.value,
                   raised |-> out.raised, told |-> out.told]
        /\ UNCHANGED notRate

\* clean_up_counters: for every prefix of the table the store drops the
\* counters of that prefix whose period has run out, and the total dropped
\* is returned.
clean_up_counters(expired) ==
    /\ expired # {}
    /\ \A key \in expired : counters[key] > 0
    /\ counters' = [key \in Keys |-> IF key \in expired THEN 0 ELSE counters[key]]
    /\ UNCHANGED <<sentry, hit>>
    /\ UNCHANGED notRate

RateNext ==
    \/ \E prefix \in Prefixes, unique \in Uniques, exception \in BOOLEAN,
          fails \in BOOLEAN :
            hit_rate_limit(prefix, unique, exception, fails)
    \/ \E expired \in SUBSET Keys : clean_up_counters(expired)

\* C8: hit_rate_limit never raises because the store-side counter call
\* failed: whatever error the limit lookup or the counter operation raised
\* is told to the monitoring collaborator and -1 is returned; the caller's
\* exception is raised only when the store call succeeded and reported the
\* key as blocked.
C8_FailsOpen ==
    hit.called
        => /\ (hit.reply # "ok")
                 => /\ hit.ended = "returned"
                    /\ hit.value = <<-1>>
                    /\ hit.told
                    /\ hit.reply \in sentry
           /\ (hit.ended = "raised")
                 => /\ hit.reply = "ok"
                    /\ hit.blocked
                    /\ hit.exception
                    /\ hit.raised = "exception"

\* C8's case: the counter call raised and the call answered -1.
C8_Witness ==
    /\ hit.called
    /\ hit.reply = "StoreError"
    /\ hit.value = <<-1>>
    /\ "StoreError" \in sentry

(***************************************************************************)
(* The ledger and the self checks                                          *)
(*                                                                         *)
(* A table is the set of its rows, restricted to the columns the checks    *)
(* read; two rows of a table differ in at least one of them.  A nullable   *)
(* column holds NULL (the empty set) or {value}.  The checks only read,    *)
(* and an audit looks at a ledger at rest: rows are written before it.     *)
(***************************************************************************)
NULL == {}

WalletIds == {"w1", "w2"}

\* sum(column) over a group of rows.
RECURSIVE Sum(_, _)
Sum(rows, column) ==
    IF rows = {} THEN 0
    ELSE LET r == CHOOSE x \in rows : TRUE
         IN  r[column] + Sum(rows \ {r}, column)

\* What an aggregate yields for a key of a LEFT JOIN: NULL without rows.
GroupSum(rows, column) == IF rows = {} THEN NULL ELSE {Sum(rows, column)}

\* COALESCE(x, zero(...)).
CoalesceZero(x) == IF x = NULL THEN 0 ELSE CHOOSE a \in x : TRUE

\* ---- _check_tips ----
conflicting_tips ==
    Cardinality(tips)
        - Cardinality({<<t.tipper, t.tippee, t.mtime>> : t \in tips})

\* ---- _check_exchange_events ----
EventsOf(e) == {ee \in exchange_events : ee.exchange = e.id}

expected_sum(e) ==
    CASE e.amount > 0 /\ e.status = "succeeded" ->
             IF e.fee < 0 THEN e.amount - e.fee ELSE e.amount
      [] e.amount < 0 /\ e.status # "failed" ->
             IF e.fee > 0 THEN e.amount - e.fee ELSE e.amount
      [] OTHER -> 0

incoherent_exchanges ==
    {e \in exchanges :
        /\ EventsOf(e) # {}
        /\ expected_sum(e) # Sum(EventsOf(e), "wallet_delta")}

\* ---- _check_balances_against_transactions ----
\* The three selects of the UNION ALL, as the rows each groups for wallet w.
EventRows(w) ==
    {ee \in exchange_events :
        \E e \in exchanges : ee.exchange = e.id /\ e.wallet_id = w}

OutgoingRows(w) ==
    {t \in transfers :
        t.wallet_from = w /\ t.status = "succeeded" /\ t.virtual # {TRUE}}

IncomingRows(w) ==
    {t \in transfers :
        t.wallet_to = w /\ t.status = "succeeded" /\ t.virtual # {TRUE}}

\* foo2 has a row for a wallet id only when one of the selects has a group
\* for it.
Recalculated ==
    {w \in WalletIds :
        EventRows(w) # {} \/ OutgoingRows(w) # {} \/ IncomingRows(w) # {}}

expected_balance(w) ==
    Sum(EventRows(w), "wallet_delta") - Sum(OutgoingRows(w), "amount")
        + Sum(IncomingRows(w), "amount")

conflicting_balances ==
    {w \in Recalculated \cap DOMAIN wallets :
        expected_balance(w) # wallets[w]}

\* ---- _check_bundles_against_balances ----
BundlesIn(w) == {b \in cash_bundles : b.wallet_id = {w}}

bundles_vs_balances ==
    {w \in DOMAIN wallets :
        BundlesIn(w) # {} /\ Sum(BundlesIn(w), "amount") # wallets[w]}

\* ---- _check_bundles_grouped_by_origin_against_exchanges ----
\* The ELSE branch with the whole fee subtracted, whatever its sign.
ExpectedLessAnyFee(e) ==
    IF \/ e.amount < 0
       \/ e.status # "succeeded"
       \/ (e.amount > 0 /\ e.refund_ref # NULL)
    THEN 0
    ELSE e.amount - e.fee

\* Lines 255-260.
origin_total_expected(e) ==
    IF \/ e.amount < 0
       \/ e.status # "succeeded"
       \/ (e.amount > 0 /\ e.refund_ref # NULL)
    THEN 0
    ELSE e.amount - (IF e.fee < 0 THEN e.fee ELSE 0)

in_wallets(e) ==
    GroupSum({b \in cash_bundles : b.withdrawal = NULL /\ b.origin = e.id},
             "amount")

withdrawn_by_origin(e) ==
    GroupSum({b \in cash_bundles : b.withdrawal # NULL /\ b.origin = e.id},
             "amount")

\* Line 261.
origin_total_found(e) ==
    CoalesceZero(in_wallets(e)) + CoalesceZero(withdrawn_by_origin(e))

bundles_vs_origin ==
    {e \in exchanges : origin_total_expected(e) # origin_total_found(e)}

\* ---- _check_bundles_grouped_by_withdrawal_against_exchanges ----
withdrawal_total_expected(e) ==
    IF \/ e.amount > 0
       \/ e.status = "failed"
       \/ \E e2 \in exchanges :
              e2.refund_ref = {e.id} /\ e2.status = "succeeded"
    THEN 0
    ELSE (0 - e.amount) + (IF e.fee < 0 THEN 0 ELSE e.fee)

withdrawal_total_found(e) ==
    CoalesceZero(GroupSum({b \in cash_bundles : b.withdrawal = {e.id}},
                          "amount"))

bundles_vs_withdrawal ==
    {e \in exchanges :
        withdrawal_total_expected(e) # withdrawal_total_found(e)}

\* ---- _check_sum_of_payin_transfers ----
TransfersOf(pi) == {pt \in payin_transfers : pt.payin = pi.id}

payins_out_of_whack ==
    {pi \in payins :
        /\ pi.amount_settled # NULL
        /\ TransfersOf(pi) # {}
        /\ CoalesceZero(pi.amount_settled) - pi.fee
               # Sum(TransfersOf(pi), "amount")}

\* ---- check_db ----
\* Lines 138-144: the sub-checks in call order.
CHECKS ==
    << "_check_exchange_events",
       "_check_balances_against_transactions",
       "_check_tips",
       "_check_bundles_against_balances",
       "_check_bundles_grouped_by_origin_against_exchanges",
       "_check_bundles_grouped_by_withdrawal_against_exchanges",
       "_check_sum_of_payin_transfers" >>

\* Whether the assert of a check fails on the ledger as it is.
Violated(name) ==
    CASE name = "_check_exchange_events" -> incoherent_exchanges # {}
      [] name = "_check_balances_against_transactions" ->
             conflicting_balances # {}
      [] name = "_check_tips" -> conflicting_tips # 0
      [] name = "_check_bundles_against_balances" -> bundles_vs_balances # {}
      [] name = "_check_bundles_grouped_by_origin_against_exchanges" ->
             bundles_vs_origin # {}
      [] name = "_check_bundles_grouped_by_withdrawal_against_exchanges" ->
             bundles_vs_withdrawal # {}
      [] name = "_check_sum_of_payin_transfers" -> payins_out_of_whack # {}

\* A check_db that notes a failed sub-check and goes on to the next one.
CollectsFailures(k, found) ==
    IF k < Len(CHECKS)
    THEN [cpc |-> k + 1, ended |-> "running"]
    ELSE [cpc |-> k, ended |-> IF found THEN "AssertionError" ELSE "returned"]

\* Where check_db stands after sub-check k: a failed assert leaves check_db
\* at once; after the last sub-check check_db returns.
AfterSubCheck(k, found) ==
    IF found THEN [cpc |-> k, ended |-> "AssertionError"]
    ELSE IF k < Len(CHECKS) THEN [cpc |-> k + 1, ended |-> "running"]
    ELSE [cpc |-> k, ended |-> "returned"]

LedgerEmpty ==
    /\ wallets = [w \in WalletIds |-> 0]
    /\ exchanges = {}
    /\ exchange_events = {}
    /\ transfers = {}
    /\ cash_bundles = {}
    /\ tips = {}
    /\ payins = {}
    /\ payin_transfers = {}

CheckIdle ==
    /\ entry = "none"
    /\ cpc = 1
    /\ ran = <<>>
    /\ ended = "none"

\* ---- writes of the rest of the application, before an audit ----
SetBalance(w, balance) ==
    /\ entry = "none"
    /\ wallets' = [wallets EXCEPT ![w] = balance]
    /\ UNCHANGED <<exchanges, exchange_events, transfers, cash_bundles, tips,
                   payins, payin_transfers, checkVars>>
    /\ UNCHANGED notLedger

InsertExchange(e) ==
    /\ entry = "none"
    /\ \A x \in exchanges : x.id # e.id
    /\ e.refund_ref # NULL => \E x \in exchanges : e.refund_ref = {x.id}
    /\ exchanges' = exchanges \cup {e}
    /\ UNCHANGED <<wallets, exchange_events, transfers, cash_bundles, tips,
                   payins, payin_transfers, checkVars>>
    /\ UNCHANGED notLedger

InsertExchangeEvent(ee) ==
    /\ entry = "none"
    /\ Cardinality(exchange_events) < MaxEvents
    /\ ee \notin exchange_events
    /\ \E x \in exchanges : x.id = ee.exchange
    /\ exchange_events' = exchange_events \cup {ee}
    /\ UNCHANGED <<wallets, exchanges, transfers, cash_bundles, tips, payins,
                   payin_transfers, checkVars>>
    /\ UNCHANGED notLedger

InsertTransfer(t) ==
    /\ entry = "none"
    /\ Cardinality(transfers) < MaxTransfers
    /\ t \notin transfers
    /\ transfers' = transfers \cup {t}
    /\ UNCHANGED <<wallets, exchanges, exchange_events, cash_bundles, tips,
                   payins, payin_transfers, checkVars>>
    /\ UNCHANGED notLedger

InsertBundle(b) ==
    /\ entry = "none"
    /\ Cardinality(cash_bundles) < MaxBundles
    /\ b \notin cash_bundles
    /\ \E x \in exchanges : x.id = b.origin
    /\ b.withdrawal # NULL => \E x \in exchanges : b.withdrawal = {x.id}
    /\ cash_bundles' = cash_bundles \cup {b}
    /\ UNCHANGED <<wallets, exchanges, exchange_events, transfers, tips,
                   payins, payin_transfers, checkVars>>
    /\ UNCHANGED notLedger

InsertTip(t) ==
    /\ entry = "none"
    /\ t \notin tips
    /\ tips' = tips \cup {t}
    /\ UNCHANGED <<wallets, exchanges, exchange_events, transfers,
                   cash_bundles, payins, payin_transfers, checkVars>>
    /\ UNCHANGED notLedger

InsertPayin(pi) ==
    /\ entry = "none"
    /\ \A x \in payins : x.id # pi.id
    /\ payins' = payins \cup {pi}
    /\ UNCHANGED <<wallets, exchanges, exchange_events, transfers,
                   cash_bundles, tips, payin_transfers, checkVars>>
    /\ UNCHANGED notLedger

InsertPayinTransfer(pt) ==
    /\ entry = "none"
    /\ pt \notin payin_transfers
    /\ \E x \in payins : x.id = pt.payin
    /\ payin_transfers' = payin_transfers \cup {pt}
    /\ UNCHANGED <<wallets, exchanges, exchange_events, transfers,
                   cash_bundles, tips, payins, checkVars>>
    /\ UNCHANGED notLedger

\* ---- the audit ----
\* DB.self_check: open a cursor and enter check_db.
self_check ==
    /\ entry = "none"
    /\ entry' = "check_db"
    /\ cpc' = 1
    /\ ran' = <<>>
    /\ ended' = "running"
    /\ UNCHANGED ledgerVars
    /\ UNCHANGED notLedger

\* check_db: the call of the next sub-check and its assert.
check_db ==
    /\ entry = "check_db"
    /\ ended = "running"
    /\ ran' = Append(ran, CHECKS[cpc])
    /\ LET after == AfterSubCheck(cpc, Violated(CHECKS[cpc]))
       IN  /\ cpc' = after.cpc
           /\ ended' = after.ended
    /\ UNCHANGED <<entry, ledgerVars>>
    /\ UNCHANGED notLedger

\* One check called on its own.
RunCheck(name) ==
    /\ entry = "none"
    /\ entry' = name
    /\ ran' = <<name>>
    /\ ended' = IF Violated(name) THEN "AssertionError" ELSE "returned"
    /\ UNCHANGED <<cpc, ledgerVars>>
    /\ UNCHANGED notLedger

\* ---- the rows written in each specification ----
Deposit(id, w) ==
    [id |-> id, wallet_id |-> w, amount |-> 1, fee |-> 0,
     status |-> "succeeded", refund_ref |-> NULL]

BalanceExchangeRows == {Deposit(1, "w1"), Deposit(2, "w2")}

BalanceEventRows == [exchange : {1, 2}, wallet_delta : {-1, 1}]

BalanceTransferRows ==
    {t \in [wallet_from : WalletIds, wallet_to : WalletIds, amount : {1},
            status : {"succeeded", "failed"},
            virtual : {NULL, {TRUE}, {FALSE}}] :
        t.wallet_from # t.wallet_to}

Balances == {-1, 0, 1}

BalancesNext ==
    \/ \E w \in WalletIds, balance \in Balances : SetBalance(w, balance)
    \/ \E e \in BalanceExchangeRows : InsertExchange(e)
    \/ \E ee \in BalanceEventRows : InsertExchangeEvent(ee)
    \/ \E t \in BalanceTransferRows : InsertTransfer(t)
    \/ RunCheck("_check_balances_against_transactions")

BundleExchangeRows ==
    [id : {1, 2}, wallet_id : {"w1"}, amount : {-1, 1}, fee : {-1, 0, 1},
     status : {"created", "succeeded", "failed"},
     refund_ref : {NULL, {1}, {2}}]

BundleRows ==
    [wallet_id : {{"w1"}}, origin : {1, 2}, withdrawal : {NULL, {2}},
     amount : {1, 2}]

BundlesNext ==
    \/ \E e \in BundleExchangeRows : InsertExchange(e)
    \/ \E b \in BundleRows : InsertBundle(b)
    \/ RunCheck("_check_bundles_grouped_by_origin_against_exchanges")

AuditExchangeRows ==
    {Deposit(1, "w1"),
     [id |-> 2, wallet_id |-> "w1", amount |-> -1, fee |-> 0,
      status |-> "succeeded", refund_ref |-> NULL]}

AuditEventRows == [exchange : {1}, wallet_delta : {1, 2}]

AuditBundleRows ==
    {[wallet_id |-> {"w1"}, origin |-> 1, withdrawal |-> NULL, amount |-> 1],
     [wallet_id |-> NULL, origin |-> 1, withdrawal |-> {2}, amount |-> 1]}

AuditTipRows ==
    [tipper : {"alice"}, tippee : {"bob"}, mtime : {1}, amount : {1, 2}]

AuditPayinRows == {[id |-> 1, amount_settled |-> {2}, fee |-> 0]}

AuditPayinTransferRows == [payin : {1}, amount : {1, 2}]

CheckDbNext ==
    \/ \E balance \in {0, 1} : SetBalance("w1", balance)
    \/ \E e \in AuditExchangeRows : InsertExchange(e)
    \/ \E ee \in AuditEventRows : InsertExchangeEvent(ee)
    \/ \E b \in AuditBundleRows : InsertBundle(b)
    \/ \E t \in AuditTipRows : InsertTip(t)
    \/ \E pi \in AuditPayinRows : InsertPayin(pi)
    \/ \E pt \in AuditPayinTransferRows : InsertPayinTransfer(pt)
    \/ self_check
    \/ check_db

Finished == ended \in {"returned", "AssertionError"}

FailingChecks == {k \in 1..Len(CHECKS) : Violated(CHECKS[k])}

FirstFailing == CHOOSE k \in FailingChecks : \A j \in FailingChecks : k <= j

LedgerBalance(w) ==
    Sum({ee \in exchange_events :
            \E e \in exchanges : e.id = ee.exchange /\ e.wallet_id = w},
        "wallet_delta")
      + Sum({t \in transfers : t.wallet_to = w /\ t.status = "succeeded"
                                 /\ t.virtual # {TRUE}}, "amount")
      - Sum({t \in transfers : t.wallet_from = w /\ t.status = "succeeded"
                                 /\ t.virtual # {TRUE}}, "amount")

\* C9: _check_balances_against_transactions passes exactly when every
\* account of the wallets table has a balance equal to its exchange-event
\* deltas plus succeeded non-virtual transfers in minus those out, an empty
\* sum counting as zero; it raises whenever some balance differs.
C9_EveryWalletReconciled ==
    (entry = "_check_balances_against_transactions" /\ Finished)
        => (ended = "returned"
               <=> \A w \in DOMAIN wallets : wallets[w] = LedgerBalance(w))

AllBundlesOf(e) == Sum({b \in cash_bundles : b.origin = e.id}, "amount")

\* The expected lot total as the claim words it.
ClaimedExpected(e) ==
    IF \/ e.status = "failed"
       \/ e.amount < 0
       \/ /\ e.status = "succeeded"
          /\ e.amount > 0
          /\ \E e2 \in exchanges \ {e} : e2.refund_ref = {e.id}
    THEN 0
    ELSE e.amount - (IF e.fee < 0 THEN e.fee ELSE 0)

\* C10 as claimed: the expected lot total of an exchange is zero when it
\* failed, is a withdrawal, or is a succeeded deposit that some other
\* exchange's refund_ref points to, and amount minus a negative fee
\* otherwise; the check raises exactly when that differs, for some
\* exchange, from the sum of all bundles whose origin is the exchange.
C10_ZeroWhenRefunded ==
    (entry = "_check_bundles_grouped_by_origin_against_exchanges" /\ Finished)
        => (ended = "AssertionError"
               <=> \E e \in exchanges : ClaimedExpected(e) # AllBundlesOf(e))

\* The expected lot total as amended.
AmendedExpected(e) ==
    IF \/ e.status # "succeeded"
       \/ e.amount < 0
       \/ (e.amount > 0 /\ e.refund_ref # NULL)
    THEN 0
    ELSE IF e.fee < 0 THEN e.amount - e.fee ELSE e.amount

\* C10 as amended: the expected lot total of an exchange is zero when it
\* has not succeeded (failed or still pending), is a withdrawal, or is a
\* deposit whose own refund_ref is set, and amount minus a negative fee
\* otherwise; the check raises exactly when that differs, for some
\* exchange, from the sum of all bundles whose origin is the exchange.
C10_ZeroUnlessSucceededDeposit ==
    (entry = "_check_bundles_grouped_by_origin_against_exchanges" /\ Finished)
        => (ended = "AssertionError"
               <=> \E e \in exchanges : AmendedExpected(e) # AllBundlesOf(e))

\* C10's case: a succeeded deposit of 1 with a fee of -1 is matched by an
\* active bundle of 1 and a withdrawn bundle of 1, and the check passes.
C10_Witness ==
    /\ entry = "_check_bundles_grouped_by_origin_against_exchanges"
    /\ ended = "returned"
    /\ \E e \in exchanges :
          /\ e.status = "succeeded" /\ e.amount = 1 /\ e.fee = -1
          /\ e.refund_ref = NULL
          /\ \E b1, b2 \in cash_bundles :
                /\ b1.origin = e.id /\ b1.withdrawal = NULL
                /\ b2.origin = e.id /\ b2.withdrawal # NULL

(***************************************************************************)
(* Specifications                                                          *)
(***************************************************************************)
InitLock == LockIdle /\ MigIdle /\ RateIdle /\ LedgerEmpty /\ CheckIdle

SpecLock == InitLock /\ [][LockNext]_vars

InitMig == LockIdle /\ MigInit /\ RateIdle /\ LedgerEmpty /\ CheckIdle

SpecMig == InitMig /\ [][MigNext]_vars

InitRate == LockIdle /\ MigIdle /\ RateIdle /\ LedgerEmpty /\ CheckIdle

SpecRate == InitRate /\ [][RateNext]_vars

InitLedger == LockIdle /\ MigIdle /\ RateIdle /\ LedgerEmpty /\ CheckIdle

SpecBalances == InitLedger /\ [][BalancesNext]_vars

SpecBundles == InitLedger /\ [][BundlesNext]_vars

SpecCheckDb == InitLedger /\ [][CheckDbNext]_vars

=============================================================================
